---- MODULE Spec2Model ----
(***************************************************************************)
(* Model of scripts/patch-provider copy.py: the Patcher that locates the   *)
(* installed Arduino extension, reads arduinoContentProvider.js, and       *)
(* replaces one of two legacy literals by its patched form.                *)
(*                                                                         *)
(* Text is a sequence of fragments.  The five literals of the script are   *)
(* concatenations of five fragments, and X is any other text:              *)
(*   P   the common head of old_line_v1 and old_line_v2, up to and with    *)
(*       toString()}                                                       *)
(*   Q1  the rest of old_line_v1, which is also the end of new_line_v1     *)
(*   Q2  the rest of old_line_v2, which is also the end of new_line_v2     *)
(*   M   the literal of the already-patched test, the common head of       *)
(*       new_line_v1 and new_line_v2                                       *)
(*   S   what new_line_v1 and new_line_v2 hold between M and Q1 or Q2      *)
(* No fragment occurs inside another, so a literal occurs in a text only   *)
(* where its fragments follow one another.                                 *)
(***************************************************************************)
EXTENDS Integers, Sequences, FiniteSets, TLC

VARIABLES roots, files, orig, concurrent, run

vars == <<roots, files, orig, concurrent, run>>

\* Longest file content, in fragments, that Init draws.
MaxLen == 4
\* Most entries an extensions directory holds.
MaxEntries == 2

Fragments == {"P", "Q1", "Q2", "M", "S", "X"}

old_line_v1 == <<"P", "Q1">>
old_line_v2 == <<"P", "Q2">>
new_line_v1 == <<"M", "S", "Q1">>
new_line_v2 == <<"M", "S", "Q2">>
\* A marker test that looks for one whole replacement line.
marker_whole_line == new_line_v2
\* The literal of the "already patched" test.
marker == <<"M">>

extension_dirs == <<".vscode-remote/extensions", ".vscode-server/extensions">>

\* The invocations of main(): two, run in succession or concurrently.
Runs == {1, 2}

SeqsUpTo(S, n) == UNION {[1..k -> S] : k \in 0..n}

----------------------------------------------------------------------------
(* str operations *)

StartsAt(s, pat, i) ==
    /\ i + Len(pat) - 1 <= Len(s)
    /\ \A k \in 1..Len(pat) : s[i + k - 1] = pat[k]

\* pat in s
Contains(s, pat) == \E i \in 1..(Len(s) - Len(pat) + 1) : StartsAt(s, pat, i)

RECURSIVE ReplaceFrom(_, _, _, _)
ReplaceFrom(s, old, new, i) ==
    IF i > Len(s) THEN <<>>
    ELSE IF StartsAt(s, old, i)
         THEN new \o ReplaceFrom(s, old, new, i + Len(old))
         ELSE <<s[i]>> \o ReplaceFrom(s, old, new, i + 1)

RECURSIVE ReplaceFirstFrom(_, _, _, _)
ReplaceFirstFrom(s, old, new, i) ==
    IF i > Len(s) THEN <<>>
    ELSE IF StartsAt(s, old, i)
         THEN new \o SubSeq(s, i + Len(old), Len(s))
         ELSE <<s[i]>> \o ReplaceFirstFrom(s, old, new, i + 1)

\* s.replace(old, new, 1): only the leftmost occurrence.
ReplaceFirst(s, old, new) == ReplaceFirstFrom(s, old, new, 1)

\* s.replace(old, new): every occurrence, leftmost first, non-overlapping.
Replace(s, old, new) == ReplaceFrom(s, old, new, 1)

\* An optional str: None, or a text.
None == [some |-> FALSE, text |-> <<>>]
Some(t) == [some |-> TRUE, text |-> t]
\* Python truthiness of an optional str: neither None nor "".
Truthy(o) == o.some /\ o.text # <<>>

----------------------------------------------------------------------------
(* The file system *)

Entry == [name_matches : BOOLEAN, has_target : BOOLEAN]
Absent == [isdir |-> FALSE, entries |-> <<>>]
Dir(es) == [isdir |-> TRUE, entries |-> es]
RootStates == {Absent} \cup {Dir(es) : es \in SeqsUpTo(Entry, MaxEntries)}
Layouts == [1..Len(extension_dirs) -> RootStates]

\* The paths <<d, i>> of the entries that hold the target file.
TargetLocs(rs) ==
    UNION {{<<d, i>> : i \in {j \in 1..Len(rs[d].entries) :
                                 rs[d].isdir /\ rs[d].entries[j].has_target}} :
           d \in 1..Len(extension_dirs)}

\* os.path.isfile(target_file)
isfile(rs, path) == path \in TargetLocs(rs)

RECURSIVE GlobFrom(_, _)
GlobFrom(es, i) ==
    IF i > Len(es) THEN <<>>
    ELSE IF es[i].name_matches THEN <<i>> \o GlobFrom(es, i + 1)
         ELSE GlobFrom(es, i + 1)

\* glob.glob(ext_dir/vscode-arduino.vscode-arduino-community*), in listing order.
glob(es) == GlobFrom(es, 1)

RECURSIVE FindFrom(_, _)
FindFrom(rs, d) ==
    IF d > Len(extension_dirs) THEN [path |-> <<>>, consulted |-> {}]
    ELSE IF rs[d].isdir /\ glob(rs[d].entries) # <<>>
         THEN [path |-> <<d, glob(rs[d].entries)[1]>>, consulted |-> {d}]
         ELSE [path |-> FindFrom(rs, d + 1).path,
               consulted |-> {d} \cup FindFrom(rs, d + 1).consulted]

RECURSIVE FindLastFrom(_, _)
FindLastFrom(rs, d) ==
    IF d < 1 THEN [path |-> <<>>, consulted |-> {}]
    ELSE IF rs[d].isdir /\ glob(rs[d].entries) # <<>>
         THEN [path |-> <<d, glob(rs[d].entries)[1]>>, consulted |-> {d}]
         ELSE [path |-> FindLastFrom(rs, d - 1).path,
               consulted |-> {d} \cup FindLastFrom(rs, d - 1).consulted]

\* The search with the candidate roots tried in the reverse order.
find_extension_path_reversed(rs) == FindLastFrom(rs, Len(extension_dirs))

\* The path found (<<>> for None) and the roots the loop looked at.
find_extension_path(rs) == FindFrom(rs, 1)

\* A write of text t to a file opened for appending.
WriteAtEnd(cur, t) == cur \o t

\* A write of text t at offset 0 of a file holding cur.
Overwrite(cur, t) == t \o SubSeq(cur, Len(t) + 1, Len(cur))

----------------------------------------------------------------------------
(* main(): one action per step that touches the file system or ends the   *)
(* run; run[r].output is the status line printed before sys.exit, and       *)
(* print itself is taken to succeed.                                        *)

IdleRun == [pc |-> "locate", ext_path |-> <<>>, consulted |-> {},
            content |-> None, new_content |-> None, rule |-> "none",
            opened_w |-> 0, written |-> None, io_error |-> "none",
            output |-> "", exit_code |-> -1]

\* sys.exit(code) after print(msg)
Exit(r, msg, code) ==
    [run[r] EXCEPT !.pc = "done", !.output = msg, !.exit_code = code]

\* ext_path = find_extension_path(); if not ext_path: exit(0)
Locate(r) ==
    /\ run[r].pc = "locate"
    /\ concurrent \/ \A q \in Runs : q < r => run[q].pc = "done"
    /\ LET found == find_extension_path(roots)
           here == [run[r] EXCEPT !.ext_path = found.path,
                                  !.consulted = found.consulted]
       IN  run' = [run EXCEPT ![r] =
                IF found.path = <<>>
                THEN [here EXCEPT !.pc = "done", !.output = "ext_not_found",
                                  !.exit_code = 0]
                ELSE [here EXCEPT !.pc = "resolve"]]
    /\ UNCHANGED <<roots, files, orig, concurrent>>

\* The missing target file reported with exit code 1.
ResolveExit1(r) ==
    /\ run[r].pc = "resolve"
    /\ run' = [run EXCEPT ![r] =
            IF isfile(roots, run[r].ext_path)
            THEN [@ EXCEPT !.pc = "read"]
            ELSE Exit(r, "target_not_found", 1)]
    /\ UNCHANGED <<roots, files, orig, concurrent>>

\* The target file read without the isfile test.
ResolveNoCheck(r) ==
    /\ run[r].pc = "resolve"
    /\ run' = [run EXCEPT ![r] = [@ EXCEPT !.pc = "read"]]
    /\ UNCHANGED <<roots, files, orig, concurrent>>

\* if not os.path.isfile(target_file): exit(0)
Resolve(r) ==
    /\ run[r].pc = "resolve"
    /\ run' = [run EXCEPT ![r] =
            IF isfile(roots, run[r].ext_path)
            THEN [@ EXCEPT !.pc = "read"]
            ELSE Exit(r, "target_not_found", 0)]
    /\ UNCHANGED <<roots, files, orig, concurrent>>

\* The read succeeds.
ReadOk(r) ==
    /\ run[r].pc = "read"
    /\ run[r].ext_path \in DOMAIN files
    /\ run' = [run EXCEPT ![r] =
            [@ EXCEPT !.pc = "check",
                      !.content = Some(files[run[r].ext_path])]]
    /\ UNCHANGED <<roots, files, orig, concurrent>>

\* open() or read() raises.
ReadFail(r) ==
    /\ run[r].pc = "read"
    /\ run' = [run EXCEPT ![r] =
            [Exit(r, "read_error", 1) EXCEPT !.io_error = "read"]]
    /\ UNCHANGED <<roots, files, orig, concurrent>>

\* if <marker> in content: exit(0)
CheckWith(r, m) ==
    /\ run[r].pc = "check"
    /\ run' = [run EXCEPT ![r] =
            IF Contains(run[r].content.text, m)
            THEN Exit(r, "already_patched", 0)
            ELSE [@ EXCEPT !.pc = "match"]]
    /\ UNCHANGED <<roots, files, orig, concurrent>>

CheckWholeLine(r) == CheckWith(r, marker_whole_line)

Check(r) == CheckWith(r, marker)

\* The rules tried in the order v2, v1.
TryPatchV2First(content) ==
    IF Contains(content, old_line_v2)
    THEN [new_content |-> Some(Replace(content, old_line_v2, new_line_v2)),
          rule |-> "v2"]
    ELSE IF Contains(content, old_line_v1)
    THEN [new_content |-> Some(Replace(content, old_line_v1, new_line_v1)),
          rule |-> "v1"]
    ELSE [new_content |-> None, rule |-> "none"]

\* new_content starting as the content read instead of None.
TryPatchDefaultContent(content) ==
    IF Contains(content, old_line_v1)
    THEN [new_content |-> Some(Replace(content, old_line_v1, new_line_v1)),
          rule |-> "v1"]
    ELSE IF Contains(content, old_line_v2)
    THEN [new_content |-> Some(Replace(content, old_line_v2, new_line_v2)),
          rule |-> "v2"]
    ELSE [new_content |-> Some(content), rule |-> "none"]

\* The new content and the rule that produced it: if v1 ... elif v2 ...
TryPatch(content) ==
    IF Contains(content, old_line_v1)
    THEN [new_content |-> Some(Replace(content, old_line_v1, new_line_v1)),
          rule |-> "v1"]
    ELSE IF Contains(content, old_line_v2)
    THEN [new_content |-> Some(Replace(content, old_line_v2, new_line_v2)),
          rule |-> "v2"]
    ELSE [new_content |-> None, rule |-> "none"]

\* if new_content: (go on to write) else: exit(1)
Match(r) ==
    /\ run[r].pc = "match"
    /\ LET p == TryPatch(run[r].content.text)
       IN  run' = [run EXCEPT ![r] =
                IF Truthy(p.new_content)
                THEN [@ EXCEPT !.pc = "open_w", !.new_content = p.new_content,
                               !.rule = p.rule]
                ELSE [Exit(r, "pattern_mismatch", 1) EXCEPT
                               !.new_content = p.new_content, !.rule = p.rule]]
    /\ UNCHANGED <<roots, files, orig, concurrent>>

\* open(target_file, 'w') succeeds: the file is truncated.
OpenOk(r) ==
    /\ run[r].pc = "open_w"
    /\ run[r].ext_path \in DOMAIN files
    /\ files' = [files EXCEPT ![run[r].ext_path] = <<>>]
    /\ run' = [run EXCEPT ![r] =
            [@ EXCEPT !.pc = "write", !.opened_w = @ + 1]]
    /\ UNCHANGED <<roots, orig, concurrent>>

\* open(target_file, 'w') raises: the file is as it was.
OpenFail(r) ==
    /\ run[r].pc = "open_w"
    /\ run' = [run EXCEPT ![r] =
            [Exit(r, "write_error", 1) EXCEPT !.io_error = "open"]]
    /\ UNCHANGED <<roots, files, orig, concurrent>>

\* f.write(new_content) and the close succeed: exit(2)
WriteOk(r) ==
    /\ run[r].pc = "write"
    /\ files' = [files EXCEPT ![run[r].ext_path] =
                    Overwrite(@, run[r].new_content.text)]
    /\ run' = [run EXCEPT ![r] =
            [Exit(r, "patched", 2) EXCEPT !.written = run[r].new_content]]
    /\ UNCHANGED <<roots, orig, concurrent>>

\* f.write or the close raises after a proper prefix reached the file: exit(1)
WriteFail(r) ==
    /\ run[r].pc = "write"
    /\ \E k \in 0..(Len(run[r].new_content.text) - 1) :
          files' = [files EXCEPT ![run[r].ext_path] =
                      Overwrite(@, SubSeq(run[r].new_content.text, 1, k))]
    /\ run' = [run EXCEPT ![r] =
            [Exit(r, "write_error", 1) EXCEPT !.io_error = "write"]]
    /\ UNCHANGED <<roots, orig, concurrent>>

Next ==
    \E r \in Runs :
        \/ Locate(r)
        \/ Resolve(r)
        \/ ReadOk(r)
        \/ ReadFail(r)
        \/ Check(r)
        \/ Match(r)
        \/ OpenOk(r)
        \/ OpenFail(r)
        \/ WriteOk(r)
        \/ WriteFail(r)

----------------------------------------------------------------------------
(* Initial states *)

Contents == SeqsUpTo(Fragments, MaxLen)

InitWith(rs, c, conc) ==
    /\ roots = rs
    /\ files = [l \in TargetLocs(rs) |-> c]
    /\ orig = c
    /\ concurrent = conc
    /\ run = [r \in Runs |-> IdleRun]

Matching == [name_matches |-> TRUE, has_target |-> TRUE]
Stripped == [name_matches |-> TRUE, has_target |-> FALSE]

\* The extension installed under the first root, under the second only, and
\* installed without the target file.
InstalledLayouts ==
    { <<Dir(<<Matching>>), Absent>>,
      <<Absent, Dir(<<Matching>>)>>,
      <<Dir(<<Stripped>>), Dir(<<Matching>>)>> }

\* Every content, a few layouts, the runs in succession.
Init ==
    \E rs \in InstalledLayouts, c \in Contents : InitWith(rs, c, FALSE)

Spec == Init /\ [][Next]_vars

\* Scenario files: boilerplate around the v1 line, the v2 line, a patched
\* line, and no line at all.
SampleContents ==
    { <<"X", "P", "Q1", "X">>, <<"X", "P", "Q2", "X">>,
      <<"X", "M", "S", "Q1", "X">>, <<"X", "X">> }

\* Every layout of the two roots, the scenario files, the runs in succession.
InitLocate ==
    \E rs \in Layouts, c \in SampleContents : InitWith(rs, c, FALSE)

SpecLocate == InitLocate /\ [][Next]_vars

\* The extension installed under the first root, every content, the runs
\* concurrent.
InitConc ==
    \E c \in Contents : InitWith(<<Dir(<<Matching>>), Absent>>, c, TRUE)

SpecConc == InitConc /\ [][Next]_vars

----------------------------------------------------------------------------
(* What the claims are stated in: the environment, described without the    *)
(* operators of the model.                                                  *)

HasMatch(d) ==
    /\ roots[d].isdir
    /\ \E i \in 1..Len(roots[d].entries) : roots[d].entries[i].name_matches

\* The first matching entry of the first root that has one; <<>> when none has.
ExpectedPath ==
    IF \E d \in 1..Len(extension_dirs) : HasMatch(d)
    THEN LET d == CHOOSE x \in 1..Len(extension_dirs) :
                      HasMatch(x) /\ \A y \in 1..(x - 1) : ~HasMatch(y)
             i == CHOOSE x \in 1..Len(roots[d].entries) :
                      /\ roots[d].entries[x].name_matches
                      /\ \A y \in 1..(x - 1) : ~roots[d].entries[y].name_matches
         IN  <<d, i>>
    ELSE <<>>

TargetPresent ==
    /\ ExpectedPath # <<>>
    /\ roots[ExpectedPath[1]].entries[ExpectedPath[2]].has_target

HasLegacy(c) == Contains(c, old_line_v1) \/ Contains(c, old_line_v2)
HasMarker(c) == Contains(c, <<"M">>)
LegacyNoMarker(c) == HasLegacy(c) /\ ~HasMarker(c)

Occ(c, old) == {i \in 1..Len(c) : StartsAt(c, old, i)}
Count(c, old) == Cardinality(Occ(c, old))
Shift(c, old, new, i) ==
    Cardinality({j \in Occ(c, old) : j < i}) * (Len(new) - Len(old))

\* w is c with every occurrence of old replaced by new and the rest unchanged
\* (the occurrences of old do not overlap).
IsReplaced(w, c, old, new) ==
    /\ Len(w) = Len(c) + Count(c, old) * (Len(new) - Len(old))
    /\ \A i \in 1..Len(c) :
          IF i \in Occ(c, old)
          THEN \A k \in 1..Len(new) : w[i + Shift(c, old, new, i) + k - 1] = new[k]
          ELSE \/ \E j \in Occ(c, old) : j < i /\ i < j + Len(old)
               \/ w[i + Shift(c, old, new, i)] = c[i]

\* w is what one run makes of the legacy content c: the first rule that matches.
IsPatchOf(w, c) ==
    IF Contains(c, <<"P", "Q1">>)
    THEN IsReplaced(w, c, <<"P", "Q1">>, <<"M", "S", "Q1">>)
    ELSE IsReplaced(w, c, <<"P", "Q2">>, <<"M", "S", "Q2">>)

AllDone == \A r \in Runs : run[r].pc = "done"
Unmodified == files = [l \in DOMAIN files |-> orig]

----------------------------------------------------------------------------
(* The claims *)

C2_Idempotent ==
    (/\ ~concurrent
     /\ TargetPresent
     /\ LegacyNoMarker(orig)
     /\ run[1].pc = "done" /\ run[1].io_error = "none")
    => /\ run[1].exit_code = 2
       /\ run[1].written.some
       /\ files[ExpectedPath] = run[1].written.text
       /\ IsPatchOf(files[ExpectedPath], orig)
       /\ run[2].opened_w = 0
       /\ run[2].pc \notin {"match", "open_w", "write"}
       /\ (run[2].pc = "done" /\ run[2].io_error = "none")
            => /\ run[2].exit_code = 0
               /\ run[2].output = "already_patched"
               /\ run[2].content.text = run[1].written.text

C2_Witness ==
    /\ ~concurrent /\ LegacyNoMarker(orig) /\ AllDone
    /\ Count(orig, old_line_v2) = 2
    /\ run[1].exit_code = 2 /\ run[2].exit_code = 0
    /\ run[2].output = "already_patched" /\ run[2].opened_w = 0

\* C3: a run that read a content with a legacy literal and no marker, and met
\* no I/O failure, ends "patched" with exit 2, and what it wrote is the content
\* read with every occurrence of the matched literal replaced by that rule's
\* replacement and nothing else changed; it holds the marker, and it is the
\* file's content as long as no later run opened the file for writing.
C3_Patched ==
    \A r \in Runs :
        (/\ run[r].pc = "done"
         /\ run[r].content.some
         /\ LegacyNoMarker(run[r].content.text)
         /\ run[r].io_error = "none")
        => /\ run[r].exit_code = 2
           /\ run[r].output = "patched"
           /\ run[r].written.some
           /\ IsPatchOf(run[r].written.text, run[r].content.text)
           /\ HasMarker(run[r].written.text)
           /\ (\A q \in Runs : q > r => run[q].opened_w = 0)
                => files[run[r].ext_path] = run[r].written.text

\* C3 witness: the v1 line twice in the content read, both replaced.
C3_Witness ==
    /\ run[1].pc = "done" /\ run[1].exit_code = 2
    /\ orig = <<"P", "Q1", "P", "Q1">>
    /\ files[run[1].ext_path] = <<"M", "S", "Q1", "M", "S", "Q1">>

C3_WitnessV2 ==
    /\ run[1].pc = "done" /\ run[1].exit_code = 2
    /\ orig = <<"X", "P", "Q2", "X">>
    /\ files[run[1].ext_path] = <<"X", "M", "S", "Q2", "X">>

\* C4: when the target file holds neither legacy literal nor the marker, no
\* run ever opens a file for writing, every file keeps its content, and a run
\* that met no read failure ends "pattern mismatch" with exit 1.
C4_MismatchLeavesFile ==
    (TargetPresent /\ ~HasLegacy(orig) /\ ~HasMarker(orig))
    => /\ Unmodified
       /\ \A r \in Runs :
            /\ run[r].opened_w = 0
            /\ run[r].pc \notin {"open_w", "write"}
            /\ (run[r].pc = "done" /\ run[r].io_error = "none")
                 => /\ run[r].exit_code = 1
                    /\ run[r].output = "pattern_mismatch"

\* C4 witness: a content that holds the common head of the legacy lines only.
C4_Witness ==
    /\ orig = <<"X", "P", "X", "Q1">>
    /\ TargetPresent
    /\ AllDone
    /\ \A r \in Runs : run[r].output = "pattern_mismatch" /\ run[r].exit_code = 1

C5_WitnessNoFile ==
    /\ ExpectedPath # <<>> /\ ~TargetPresent
    /\ AllDone
    /\ \A r \in Runs : run[r].exit_code = 0 /\ run[r].output = "target_not_found"

\* C6 (the module docstring): a run that could not patch because the target
\* file is not found exits with 1, and exit code 0 means "already patched".
C6_DocstringExitCodes ==
    \A r \in Runs :
        run[r].pc = "done"
        => /\ ~TargetPresent => run[r].exit_code = 1
           /\ run[r].exit_code = 0 => run[r].output = "already_patched"

\* C7: a run that read a content holding the marker tries no rule, computes no
\* new content, opens nothing for writing and ends "already patched" with exit
\* 0, the file still holding what was read, whatever legacy literal the content
\* also holds.
C7_MarkerFirst ==
    \A r \in Runs :
        (run[r].content.some /\ HasMarker(run[r].content.text)
            /\ run[r].pc # "check")
        => /\ run[r].pc = "done"
           /\ run[r].exit_code = 0
           /\ run[r].output = "already_patched"
           /\ run[r].rule = "none"
           /\ ~run[r].new_content.some
           /\ run[r].opened_w = 0
           /\ ~run[r].written.some
           /\ files[run[r].ext_path] = run[r].content.text

\* C7 witness: the marker next to a v1 line.
C7_Witness ==
    /\ orig = <<"M", "P", "Q1">>
    /\ run[1].pc = "done" /\ run[1].exit_code = 0
    /\ run[1].output = "already_patched"
    /\ files[run[1].ext_path] = <<"M", "P", "Q1">>

\* C8 as stated: after a run that ends "patched", one rule was applied and the
\* content written holds no legacy literal, v1 or v2.
C8_NoLegacyLeft ==
    \A r \in Runs :
        (run[r].pc = "done" /\ run[r].exit_code = 2)
        => /\ run[r].rule \in {"v1", "v2"}
           /\ ~Contains(run[r].written.text, old_line_v1)
           /\ ~Contains(run[r].written.text, old_line_v2)

\* C8 amended: the rules are tried v1 then v2 and only the first that matches
\* is applied: after a run that ends "patched" the content written holds no
\* occurrence of the applied rule's literal and one marker per occurrence
\* replaced; it holds no legacy literal at all when the content read held only
\* one of the two, and when it held both, v1 was applied and every v2
\* occurrence is still there.
C8_FirstMatchWins ==
    \A r \in Runs :
        (run[r].pc = "done" /\ run[r].exit_code = 2)
        => LET c == run[r].content.text
               w == run[r].written.text
               has1 == Contains(c, <<"P", "Q1">>)
               has2 == Contains(c, <<"P", "Q2">>)
           IN  /\ run[r].rule \in {"v1", "v2"}
               /\ run[r].rule = "v1" <=> has1
               /\ run[r].rule = "v2" <=> (~has1 /\ has2)
               /\ run[r].rule = "v1" =>
                    /\ ~Contains(w, <<"P", "Q1">>)
                    /\ Count(w, <<"M">>) = Count(c, <<"P", "Q1">>)
                    /\ Count(w, <<"P", "Q2">>) = Count(c, <<"P", "Q2">>)
               /\ run[r].rule = "v2" =>
                    /\ ~Contains(w, <<"P", "Q2">>)
                    /\ Count(w, <<"M">>) = Count(c, <<"P", "Q2">>)
               /\ ~(has1 /\ has2) => ~HasLegacy(w)
               /\ (has1 /\ has2) => Contains(w, <<"P", "Q2">>)

\* C8 witness: both legacy lines in the content read; v1 replaced, v2 kept.
C8_Witness ==
    /\ orig = <<"P", "Q2", "P", "Q1">>
    /\ run[1].pc = "done" /\ run[1].exit_code = 2 /\ run[1].rule = "v1"
    /\ files[run[1].ext_path] = <<"P", "Q2", "M", "S", "Q1">>

C9_WitnessSecondRoot ==
    /\ roots[1].isdir /\ ~HasMatch(1) /\ Len(roots[1].entries) > 0
    /\ run[1].pc = "done" /\ run[1].ext_path = <<2, 2>>
    /\ run[1].exit_code = 2

\* C10: two concurrent runs over a target file that holds a legacy content and
\* no marker, with no I/O failure: once both have ended the file holds what a
\* single run writes; at least one run ended "patched", and a run that did not
\* either found the marker or read the file while it was truncated.
C10_ConcurrentRuns ==
    (/\ concurrent
     /\ TargetPresent
     /\ LegacyNoMarker(orig)
     /\ AllDone
     /\ \A r \in Runs : run[r].io_error = "none")
    => /\ IsPatchOf(files[ExpectedPath], orig)
       /\ \E r \in Runs : run[r].exit_code = 2
       /\ \A r \in Runs :
            \/ run[r].exit_code = 2 /\ run[r].content.text = orig
            \/ run[r].exit_code = 0 /\ IsPatchOf(run[r].content.text, orig)
            \/ run[r].exit_code = 1 /\ run[r].content.text = <<>>

\* C10 witness: both runs passed the marker test and both report "patched".
C10_Witness ==
    /\ concurrent /\ LegacyNoMarker(orig) /\ AllDone
    /\ \A r \in Runs : run[r].exit_code = 2 /\ run[r].opened_w = 1

====
